---- MODULE Spec2Model ----
(***************************************************************************)
(* NewsAPIConnection (src/src/newsapi/connection.py): an adapter that      *)
(* fetches articles from a REST API, shapes them into a DataFrame and      *)
(* caches the result per call arguments with a time-to-live.               *)
(*                                                                         *)
(* The collaborators the code calls are modelled by what they do:          *)
(*  - requests.get / Response.raise_for_status / Response.json             *)
(*  - pandas.DataFrame(data)                                               *)
(*  - streamlit cache_data(ttl=...): one cache per decorated function      *)
(*    (module + qualified name), whose entries are keyed by the call       *)
(*    arguments and expire ttl seconds after they were stored; asking for  *)
(*    the cache of a function with a ttl other than the one the cache was  *)
(*    created with replaces that cache by a new, empty one.                *)
(***************************************************************************)
EXTENDS Integers, Sequences, FiniteSets, TLC

VARIABLES key, base, now, cacheTtl, cache, pop, call, net, quota, data, frame

vars == <<key, base, now, cacheTtl, cache, pop, call, net, quota, data, frame>>

(* ------------------------------ bounds --------------------------------- *)
MaxTime == 2
MaxRequests == 2
MaxTtlRequests == 3
MaxArticles == 2

Procs == {1, 2}
Topics == {"x", "y"}
Countries == {"us"}
Categories == {"business", "sports"}
TTLs == {1, 2}
Ops == {"query", "top"}
Secrets == {[NEWSAPI_KEY |-> "k1", NEWSAPI_BASE_URL |-> "http://n/"]}

(* --------------------------- Python values ----------------------------- *)
PyNone == [t |-> "None"]
NaN == [t |-> "NaN"]
Str(s) == [t |-> "str", v |-> s]
Num(n) == [t |-> "int", v |-> n]
List(s) == [t |-> "list", v |-> s]
Dict(f) == [t |-> "dict", v |-> f]
Raise(e) == [t |-> "raise", v |-> e]
Unset == [t |-> "unset"]
EmptyDict == [k \in {} |-> PyNone]

(* --------------------------- pandas.DataFrame -------------------------- *)
Frame(cols, rows) == [t |-> "DataFrame", cols |-> cols, rows |-> rows]

EmptyFrame == Frame({}, <<>>)

IsRecords(d) == d.t = "list" /\ \A i \in 1..Len(d.v) : d.v[i].t = "dict"

DataFrame_dropna(d) ==
    CASE d.t = "None" -> EmptyFrame
      [] IsRecords(d) ->
           LET cols == UNION {DOMAIN d.v[i].v : i \in 1..Len(d.v)}
               full == SelectSeq(d.v, LAMBDA r : DOMAIN r.v = cols)
           IN  Frame(cols, [i \in 1..Len(full) |-> full[i].v])
      [] OTHER -> Raise("ValueError")

\* pd.DataFrame(None) and pd.DataFrame([]) are the empty frame; a list of
\* dicts gives one row per dict, in list order, over the union of their keys,
\* a key a dict lacks read as NaN; a scalar raises ValueError.
DataFrame(d) ==
    CASE d.t = "None" -> EmptyFrame
      [] IsRecords(d) ->
           LET cols == UNION {DOMAIN d.v[i].v : i \in 1..Len(d.v)}
           IN  Frame(cols, [i \in 1..Len(d.v) |->
                   [c \in cols |-> IF c \in DOMAIN d.v[i].v THEN d.v[i].v[c] ELSE NaN]])
      [] OTHER -> Raise("ValueError")

(* ------------------------------ the remote ----------------------------- *)
BodyHtml == "<html>"
BodyNull == "null"
BodyArray == "[]"
BodyEmpty == "{}"
BodyArticlesNull == "{\"articles\": null}"
BodyArticlesNum == "{\"articles\": 5}"
BodyNoArticles == "{\"articles\": []}"
BodyA == "{\"articles\": [{\"title\": \"A\"}]}"
BodyAB == "{\"articles\": [{\"title\": \"A\"}, {\"title\": \"B\"}]}"

Article(title) == Dict([title |-> Str(title)])

\* Response.json(): the parsed body, JSON null being Python None; a body that
\* is not JSON raises JSONDecodeError (a RequestException and a ValueError).
json(text) ==
    CASE text = BodyNull -> PyNone
      [] text = BodyArray -> List(<<>>)
      [] text = BodyEmpty -> Dict(EmptyDict)
      [] text = BodyArticlesNull -> Dict([articles |-> PyNone])
      [] text = BodyArticlesNum -> Dict([articles |-> Num(5)])
      [] text = BodyNoArticles -> Dict([articles |-> List(<<>>)])
      [] text = BodyA -> Dict([articles |-> List(<<Article("A")>>)])
      [] text = BodyAB -> Dict([articles |-> List(<<Article("A"), Article("B")>>)])
      [] OTHER -> Raise("JSONDecodeError")

Response(net_, status, text) == [net |-> net_, status |-> status, text |-> text]

NoResponse == Response("none", 0, "")

\* What one GET can come back with: a transport error, or a status and a body.
Responses ==
    {Response("error", 0, "")}
    \cup {Response("ok", 200, b) : b \in {BodyHtml, BodyNull, BodyArray, BodyEmpty,
              BodyArticlesNull, BodyA, BodyAB}}
    \cup {Response("ok", 300, b) : b \in {BodyA}}
    \cup {Response("ok", 500, b) : b \in {BodyHtml}}

\* The responses that differ in what a call stores and returns.
CacheResponses ==
    {Response("error", 0, ""), Response("ok", 200, BodyArray),
     Response("ok", 200, BodyA)}

ConcResponses == {Response("error", 0, ""), Response("ok", 200, BodyA)}

(* ------------------------------ the adapter ---------------------------- *)
get_retry(url) == <<url, url>>

\* requests.get(url): one GET goes out.
get(url) == <<url>>

\* Response.raise_for_status(): HTTPError for a 4xx or 5xx status only.
raise_for_status(resp) == (400 <= resp.status /\ resp.status < 600)

\* _make_api_request after the GET came back: the parsed body and no message,
\* or None and one st.error message.
make_api_request(url, resp) ==
    IF resp.net = "error" \/ raise_for_status(resp) \/ json(resp.text).t = "raise"
    THEN [data |-> PyNone, errs |-> <<url>>]
    ELSE [data |-> json(resp.text), errs |-> <<>>]

to_dataframe_strict(d) ==
    IF d.t = "None" THEN PyNone
    ELSE IF d.t # "dict" THEN Raise("AttributeError")
    ELSE IF "articles" \in DOMAIN d.v THEN DataFrame(d.v["articles"])
    ELSE Raise("KeyError")

\* _to_dataframe: None for None; data.get('articles', None) raises
\* AttributeError on a value that is no dict; the frame of the articles.
to_dataframe(d) ==
    IF d.t = "None" THEN PyNone
    ELSE IF d.t # "dict" THEN Raise("AttributeError")
    ELSE DataFrame(IF "articles" \in DOMAIN d.v THEN d.v["articles"] ELSE PyNone)

query_url(topic) == base \o "everything?q=" \o topic \o "&apiKey=" \o key

top_url_swapped(country, category) ==
    base \o "top-headlines?country=" \o category \o "&category=" \o country
         \o "&apiKey=" \o key

top_url(country, category) ==
    base \o "top-headlines?country=" \o country \o "&category=" \o category
         \o "&apiKey=" \o key

value_key_country(op, args) == IF op = "top" THEN <<args[1]>> ELSE args

\* cache_data keys an entry by the arguments of the call.
value_key(op, args) == args

Live_short(e, ttl) == now + 1 < e.at + ttl

Live_long(e, ttl) == now <= e.at + ttl

\* cachetools.TTLCache: an entry stored at time at is live while now < at + ttl.
Live(e, ttl) == now < e.at + ttl

Put(f, k, v) == [x \in DOMAIN f \cup {k} |-> IF x = k THEN v ELSE f[x]]

write_result_skip_none(f, k, v) == IF v.val = PyNone THEN f ELSE Put(f, k, v)

\* Cache.write_result: whatever the function returned is stored, None too.
write_result(f, k, v) == Put(f, k, v)

Idle == [st |-> "idle", op |-> "", args |-> <<>>, ttl |-> 0, t0 |-> 0, url |-> "",
         nreq |-> 0, errs |-> <<>>, resp |-> NoResponse, out |-> Unset, src |-> "",
         at |-> 0, det |-> FALSE, first |-> [ok |-> FALSE, nreq |-> 0, out |-> Unset]]

NoFunction == [k \in {} |-> Unset]

\* _connect: the two secrets, read once. q is the number of outbound requests
\* the run may make.
InitWith(q) ==
    /\ \E s \in Secrets : key = s.NEWSAPI_KEY /\ base = s.NEWSAPI_BASE_URL
    /\ now = 0
    /\ cacheTtl = [op \in Ops |-> 0]
    /\ cache = [op \in Ops |-> NoFunction]
    /\ pop = [op \in Ops |-> NoFunction]
    /\ call = [p \in Procs |-> Idle]
    /\ net = [p \in Procs |-> <<>>]
    /\ quota = q
    /\ frame = Unset

Init == InitWith(MaxRequests) /\ data = Unset

\* The call of the function cache_data decorates, up to the GET or the hit.
\* get_cache: the cache of the function is kept when it was created with this
\* ttl and replaced by an empty one otherwise; a call still in flight on the
\* replaced cache will store into a cache nobody reads (det).
\* pop is history: the last result stored for each key, and whether a call of
\* the operation with another ttl came after it (cut).
\* first is history: what the previous call of p did, when that call returned,
\* had the same arguments and started less than ttl before this one.
cached_call(p, op, args, ttl, url) ==
    /\ call[p].st # "waiting"
    /\ LET kept == cacheTtl[op] = ttl
           ents == IF kept THEN cache[op] ELSE NoFunction
           k == value_key(op, args)
           hit == k \in DOMAIN ents /\ Live(ents[k], ttl)
           c == call[p]
           fst == IF c.st = "returned" /\ c.op = op /\ c.args = args
                     /\ c.ttl = ttl /\ now - c.t0 < ttl
                  THEN [ok |-> TRUE, nreq |-> c.nreq, out |-> c.out]
                  ELSE Idle.first
           new == [Idle EXCEPT !.op = op, !.args = args, !.ttl = ttl, !.t0 = now,
                               !.first = fst]
           others(q) == IF call[q].st = "waiting" /\ call[q].op = op /\ ~kept
                        THEN [call[q] EXCEPT !.det = TRUE] ELSE call[q]
       IN  /\ cacheTtl' = [cacheTtl EXCEPT ![op] = ttl]
           /\ cache' = [cache EXCEPT ![op] = ents]
           /\ pop' = [pop EXCEPT ![op] = [x \in DOMAIN pop[op] |->
                         IF pop[op][x].ttl # ttl
                         THEN [pop[op][x] EXCEPT !.cut = TRUE] ELSE pop[op][x]]]
           /\ IF hit
              THEN /\ call' = [q \in Procs |->
                         IF q = p
                         THEN [new EXCEPT !.st = "returned", !.out = ents[k].val,
                                          !.src = ents[k].src, !.at = ents[k].at]
                         ELSE others(q)]
                   /\ UNCHANGED <<net, quota>>
              ELSE /\ Len(get(url)) <= quota
                   /\ call' = [q \in Procs |->
                         IF q = p
                         THEN [new EXCEPT !.st = "waiting", !.url = url,
                                          !.nreq = Len(get(url))]
                         ELSE others(q)]
                   /\ net' = [net EXCEPT ![p] = get(url)]
                   /\ quota' = quota - Len(get(url))
    /\ UNCHANGED <<key, base, now, data, frame>>

query(p, topic, ttl) == cached_call(p, "query", <<topic>>, ttl, query_url(topic))

top(p, country, category, ttl) ==
    cached_call(p, "top", <<country, category>>, ttl, top_url(country, category))

\* The GET of p comes back: the rest of _make_api_request, then _to_dataframe,
\* then the store of the result in the cache the call looked up; an exception
\* leaves the call with nothing stored.
Respond(p, resp) ==
    /\ call[p].st = "waiting"
    /\ net[p] # <<>>
    /\ LET c == call[p]
           url == Head(net[p])
           r == make_api_request(url, resp)
           df == to_dataframe(r.data)
           k == value_key(c.op, c.args)
       IN  /\ net' = [net EXCEPT ![p] = Tail(net[p])]
           /\ IF df.t = "raise"
              THEN /\ call' = [call EXCEPT ![p] = [c EXCEPT !.st = "raised",
                                   !.resp = resp, !.errs = r.errs, !.out = df]]
                   /\ UNCHANGED <<cache, pop>>
              ELSE /\ call' = [call EXCEPT ![p] = [c EXCEPT !.st = "returned",
                                   !.resp = resp, !.errs = r.errs, !.out = df,
                                   !.src = url, !.at = now]]
                   /\ IF c.det
                      THEN UNCHANGED <<cache, pop>>
                      ELSE /\ cache' = [cache EXCEPT ![c.op] = write_result(cache[c.op],
                                  k, [val |-> df, at |-> now, src |-> url])]
                           /\ pop' = [pop EXCEPT ![c.op] = Put(pop[c.op], k,
                                  [val |-> df, at |-> now, ttl |-> c.ttl,
                                   failed |-> r.errs # <<>>, cut |-> FALSE])]
    /\ UNCHANGED <<key, base, now, cacheTtl, quota, data, frame>>

\* A second passes.
Tick ==
    /\ now < MaxTime
    /\ now' = now + 1
    /\ UNCHANGED <<key, base, cacheTtl, cache, pop, call, net, quota, data, frame>>

Step(p, topics, categories, ttls, resps) ==
    \/ \E topic \in topics, ttl \in ttls : query(p, topic, ttl)
    \/ \E country \in Countries, category \in categories, ttl \in ttls :
           top(p, country, category, ttl)
    \/ \E resp \in resps : Respond(p, resp)

\* One request context: calls come one after the other.
Next == Step(1, Topics, Categories, TTLs, CacheResponses) \/ Tick

Spec == Init /\ [][Next]_vars

\* One request context, one key per operation, more requests: expiry and ttl.
NextTtl == Step(1, {"x"}, {"business"}, TTLs, CacheResponses) \/ Tick

InitTtl == InitWith(MaxTtlRequests) /\ data = Unset

SpecTtl == InitTtl /\ [][NextTtl]_vars

\* One request context, every kind of response, one key per operation.
NextFetch == Step(1, {"x"}, {"business"}, {1}, Responses) \/ Tick

SpecFetch == Init /\ [][NextFetch]_vars

\* Several request contexts at once. Whether the host lets two computations of
\* one key overlap is left open: here they may.
NextConc ==
    \/ \E p \in Procs : Step(p, {"x"}, {"business"}, TTLs, ConcResponses)
    \/ Tick

SpecConc == Init /\ [][NextConc]_vars

(* ------------------------- _to_dataframe alone ------------------------- *)
Fields == {"title", "author"}
FieldValues == {Str("A"), Str("B"), PyNone}
Records == UNION {[S -> FieldValues] : S \in SUBSET Fields}
ArticleLists == UNION {[1..n -> {Dict(r) : r \in Records}] : n \in 0..MaxArticles}

\* The values _to_dataframe is given: None, parsed bodies that are no dict,
\* and dicts with and without an articles key.
ShapeInputs ==
    {PyNone, List(<<>>), Num(5), Str("A"), Dict(EmptyDict),
     Dict([status |-> Str("error")]), Dict([articles |-> PyNone]),
     Dict([articles |-> Num(5)]), Dict([articles |-> Str("A")])}
    \cup {Dict([articles |-> List(l)]) : l \in ArticleLists}
    \cup {Dict([status |-> Str("ok"), articles |-> List(l)]) : l \in ArticleLists}

InitShape == InitWith(0) /\ data \in ShapeInputs

Shape ==
    /\ frame = Unset
    /\ frame' = to_dataframe(data)
    /\ UNCHANGED <<key, base, now, cacheTtl, cache, pop, call, net, quota, data>>

SpecShape == InitShape /\ [][Shape]_vars

(* ------------------------------- claims -------------------------------- *)
\* The URL each call must request, written out for the secrets above.
ExpectedUrl(op, args) ==
    CASE op = "query" /\ args = <<"x">> -> "http://n/everything?q=x&apiKey=k1"
      [] op = "query" /\ args = <<"y">> -> "http://n/everything?q=y&apiKey=k1"
      [] op = "top" /\ args = <<"us", "business">> ->
           "http://n/top-headlines?country=us&category=business&apiKey=k1"
      [] op = "top" /\ args = <<"us", "sports">> ->
           "http://n/top-headlines?country=us&category=sports&apiKey=k1"
      [] OTHER -> "?"

\* p starts a call in this step; p gets its response in this step.
CallStep(p) ==
    call[p].st # "waiting" /\ call'[p] # call[p] /\ call'[p].st \in {"waiting", "returned"}

RespondStep(p) == call[p].st = "waiting" /\ call'[p].st # "waiting"

Issued(p) == call'[p].st = "waiting"

\* A result was stored before for the arguments of the call p starts.
HasPop(p) == call'[p].args \in DOMAIN pop[call'[p].op]

LastPop(p) == pop[call'[p].op][call'[p].args]

FetchFailed(resp) ==
    resp.net = "error" \/ resp.status \notin 200..299 \/ resp.text = BodyHtml

\* C4: a call whose request failed by a transport error, a non-2xx status or a
\* body that is not JSON returns absent after exactly one error message.
C4_FailureIsAbsent ==
    \A p \in Procs :
        call[p].resp # NoResponse /\ FetchFailed(call[p].resp) =>
            call[p].st = "returned" /\ call[p].out = PyNone /\ Len(call[p].errs) = 1

\* C5: no call ends by raising, whatever the response.
C5_NothingRaised == \A p \in Procs : call[p].st # "raised"

FetchSucceeded(resp) == resp # NoResponse /\ ~FetchFailed(resp)

\* C9 as stated: a successful request whose body is {"articles": null} or {}
\* gives the empty table with no error message and no exception; a call that
\* made a request returns absent only when the request failed.
C9_Original ==
    \A p \in Procs :
        LET c == call[p]
        IN  /\ FetchSucceeded(c.resp) /\ c.resp.text \in {BodyArticlesNull, BodyEmpty} =>
                c.st = "returned" /\ c.out = EmptyFrame /\ c.errs = <<>>
            /\ c.resp # NoResponse /\ c.st = "returned" /\ c.out = PyNone =>
                FetchFailed(c.resp)

\* C9 amended: absent is returned only when the request failed or the body is
\* the JSON value null.
C9_Amended ==
    \A p \in Procs :
        LET c == call[p]
        IN  /\ FetchSucceeded(c.resp) /\ c.resp.text \in {BodyArticlesNull, BodyEmpty} =>
                c.st = "returned" /\ c.out = EmptyFrame /\ c.errs = <<>>
            /\ c.resp # NoResponse /\ c.st = "returned" /\ c.out = PyNone =>
                FetchFailed(c.resp) \/ c.resp.text = BodyNull

C9_Witness ==
    /\ call[1].resp = Response("ok", 200, BodyEmpty)
    /\ call[1].st = "returned" /\ call[1].out = EmptyFrame

\* The GETs on the wire for url, and the callers waiting for url.
Outstanding(url) ==
    Cardinality({pi \in UNION {{<<p, i>> : i \in 1..Len(net[p])} : p \in Procs} :
                    net[pi[1]][pi[2]] = url})

Waiting(url) == {p \in Procs : call[p].st = "waiting" /\ call[p].url = url}

====
